---- MODULE Spec2Model ----
(***************************************************************************)
(* SafeFlow Reactive System: the transactional store (SafeFlowStore), its  *)
(* TransactionManager and its SafeFlowSubject, as a state machine.         *)
(*                                                                         *)
(* One action is one synchronous run of JavaScript (run to completion): a  *)
(* public method called by the application, or a timer callback.  Inside   *)
(* an action the methods compose as functions on a "world" record `w`      *)
(* holding the fields of the three objects.                                *)
(***************************************************************************)
EXTENDS Integers, Sequences, FiniteSets, TLC

\* ------------------------------------------------------------------ bounds
MaxTx == 2            \* beginTransaction calls of the application in a run
MaxSetStates == 3     \* setState calls in a run made of setState calls only
\* subscriptions held, and observers registered, on a SafeFlowSubject used on
\* its own
MaxSubscriptions == 3
\* operations logged between two clearTransactionLogs()
MaxLogged == 3
\* executeWithinTransaction calls on the stack-based manager
MaxCalls == 3

\* ------------------------------------------------------- program constants
DefaultTimeout == 30000
DefaultMaxRetries == 3
DefaultRetryDelay == 1000

\* ------------------------------------------------------------- input sets
ObserverIds == {1, 2}
\* the observers subscribed in runs that also call executeTransaction
ExecuteObserverIds == {1}
\* the observers subscribed to a SafeFlowSubject used on its own
SubjectObserverIds == {1, 3, 4, 5, 6}
AllObserverIds == ObserverIds \cup SubjectObserverIds
\* what the callbacks of each observer do when they are invoked
Callbacks ==
  [o \in AllObserverIds |->
     CASE o = 3 -> [does |-> "throw", target |-> o]
       [] o = 4 -> [does |-> "unsubscribe", target |-> o]
       [] o = 5 -> [does |-> "unsubscribe", target |-> 1]
       [] o = 6 -> [does |-> "subscribe", target |-> 2]
       [] OTHER -> [does |-> "nothing", target |-> o]]
Fields == {"a", "b"}
Values == {0, 1}
States == [Fields -> Values]
\* Partial<T>: an object holding some of the fields of T
AllPartials == UNION {[D -> Values] : D \in SUBSET Fields}
\* the partials the application passes to setState
Partials == {p \in AllPartials : DOMAIN p \subseteq {"a"}}
\* the ids uuidv4() hands out in a run, in this order
TransactionIds == {1, 2, 3}
InitialStates == {[a |-> 0, b |-> 0]}
Timeouts == {0}
RetryDelays == {0, 50}
RetryCounts == {0, 1, 2}
\* options objects passed to SafeFlowStore.beginTransaction
BeginOptions == {<<>>} \cup {[timeout |-> t] : t \in Timeouts}
\* the same, in runs that also call executeTransaction
ExecuteBeginOptions == {<<>>}
\* options objects passed to SafeFlowStore.executeTransaction
ExecuteOptions ==
  {<<>>, [autoRetry |-> TRUE], [autoRetry |-> FALSE, maxRetries |-> 1]}
  \cup {[autoRetry |-> TRUE, maxRetries |-> n] : n \in RetryCounts}
  \cup {[autoRetry |-> TRUE, maxRetries |-> 2, retryDelay |-> d] :
          d \in RetryDelays}
\* a body fails on its first failCount invocations and succeeds afterwards;
\* a run invokes bodies at most once per transaction id
AlwaysFails == Cardinality(TransactionIds) + 1
FailCounts == {0, 1, 2, AlwaysFails}
\* the body calls setState(partial) for each partial of the sequence, then
\* returns or throws
BodyPartials == {<<[a |-> 1]>>}
Bodies == [partials : BodyPartials, failCount : FailCounts, async : {FALSE}]
\* an async body returns a promise after its setState calls; the promise is
\* rejected later when the invocation fails, resolved otherwise
AsyncBodies ==
  [partials : BodyPartials, failCount : {0, AlwaysFails}, async : {TRUE}]
AsyncExecuteOptions == {<<>>, [autoRetry |-> TRUE, maxRetries |-> 1]}
\* the values and errors passed to SafeFlowSubject.next and error
SubjectValues == {[a |-> 0, b |-> 0], [a |-> 1, b |-> 0]}
SubjectErrors == {[error |-> 1], [error |-> 2]}

\* ---------------------------------------------------------------- helpers
NoValue == [undefined |-> TRUE]
NoCall == [pending |-> FALSE, running |-> FALSE]
NotEnded == [kind |-> "none", value |-> NoValue]
Range(s) == {s[i] : i \in 1..Len(s)}
Has(o, k) == k \in DOMAIN o
\* JavaScript truthiness of o[k], a number or a boolean (an absent key reads
\* as undefined)
TruthyNumber(o, k) == Has(o, k) /\ o[k] # 0
TruthyBoolean(o, k) == Has(o, k) /\ o[k]
\* ShallowMerge giving precedence to the fields of s
ShallowMergeKeepingOld(s, p) ==
  [f \in (DOMAIN s) \cup (DOMAIN p) |-> IF f \in DOMAIN s THEN s[f] ELSE p[f]]

\* { ...s, ...p }
ShallowMerge(s, p) ==
  [f \in (DOMAIN s) \cup (DOMAIN p) |-> IF f \in DOMAIN p THEN p[f] ELSE s[f]]
\* the error raised, and the value returned, by the k-th invocation of a body
ErrorOf(k) == <<"Error", k>>
ValueOf(k) == <<"Value", k>>
\* the promise returned by the k-th invocation of an async body
PromiseOf(k) == <<"Promise", k>>
NoResult == <<"none", 0>>

DEFAULT_TRANSACTION_OPTIONS ==
  [timeout |-> DefaultTimeout, autoRetry |-> FALSE,
   maxRetries |-> DefaultMaxRetries, retryDelay |-> DefaultRetryDelay]

VARIABLES
  state,               \* SafeFlowStore.state
  initialState,        \* SafeFlowStore.initialState
  observers,           \* SafeFlowSubject.observers (registration order)
  isClosed,            \* SafeFlowSubject._isClosed
  lastValue,           \* SafeFlowSubject.lastValue
  hasValue,            \* SafeFlowSubject._hasValue
  contexts,            \* every TransactionContext created so far, by id
  activeTransactions,  \* keys of TransactionManager.activeTransactions
  transactionLogs,     \* TransactionManager.transactionLogs
  timers,              \* ids whose timeout watchdog is scheduled
  subscriptions,       \* the SafeFlowSubscription objects the application holds
  call,                \* the executeTransaction call in progress or just ended
  ended,               \* the call that terminated the subject, if any
  history,             \* the partials of a run made of setState calls only
  lastSeen,            \* per subscribed observer, the last value its next() got
  trace,               \* the callbacks invoked by the last operation
  lastOp,              \* the last operation and how it ended
  transactions,        \* every context the stack-based manager created, by id
  currentTransaction,  \* stack-based TransactionManager.currentTransaction
  transactionStack,    \* stack-based TransactionManager.transactionStack
  calls                \* the executeWithinTransaction calls, by transaction

vars == <<state, initialState, observers, isClosed, lastValue, hasValue,
          contexts, activeTransactions, transactionLogs, timers,
          subscriptions, call, ended, history, lastSeen, trace, lastOp,
          transactions, currentTransaction, transactionStack, calls>>

\* the fields the methods read and write, as one record
World ==
  [state |-> state, observers |-> observers, isClosed |-> isClosed,
   lastValue |-> lastValue, hasValue |-> hasValue, contexts |-> contexts,
   activeTransactions |-> activeTransactions,
   transactionLogs |-> transactionLogs, timers |-> timers,
   subscriptions |-> subscriptions, ended |-> ended, history |-> history,
   lastSeen |-> lastSeen, trace |-> <<>>, raised |-> FALSE]

Install(w) ==
  /\ state' = w.state
  /\ observers' = w.observers
  /\ isClosed' = w.isClosed
  /\ lastValue' = w.lastValue
  /\ hasValue' = w.hasValue
  /\ contexts' = w.contexts
  /\ activeTransactions' = w.activeTransactions
  /\ transactionLogs' = w.transactionLogs
  /\ timers' = w.timers
  /\ subscriptions' = w.subscriptions
  /\ ended' = w.ended
  /\ history' = w.history
  /\ lastSeen' = w.lastSeen
  /\ trace' = w.trace
  /\ UNCHANGED <<transactions, currentTransaction, transactionStack, calls>>

\* ======================================================== SafeFlowSubject
\* `w.raised` is set while an exception thrown by a callback propagates

\* the closure handed to SafeFlowSubscription: observers.splice(indexOf(o), 1)
SubjectRemove(w, o) ==
  IF o \in Range(w.observers)
  THEN LET i == CHOOSE j \in 1..Len(w.observers) :
                  /\ w.observers[j] = o
                  /\ \A k \in 1..(j - 1) : w.observers[k] # o
       IN [w EXCEPT !.observers =
             SubSeq(w.observers, 1, i - 1) \o
             SubSeq(w.observers, i + 1, Len(w.observers)),
                    !.lastSeen[o] = NoValue]
  ELSE w

\* SubscriptionUnsubscribe not looking at its closed flag
SubscriptionUnsubscribeAgain(w, s) ==
  [SubjectRemove(w, w.subscriptions[s].observer)
     EXCEPT !.subscriptions[s].closed = TRUE]

\* SafeFlowSubscription.unsubscribe() on the s-th subscription
SubscriptionUnsubscribe(w, s) ==
  IF ~w.subscriptions[s].closed
  THEN [SubjectRemove(w, w.subscriptions[s].observer)
          EXCEPT !.subscriptions[s].closed = TRUE]
  ELSE w

\* the subscriptions of observer o that are not closed
OpenSubscriptions(w, o) ==
  {s \in 1..Len(w.subscriptions) :
     w.subscriptions[s].observer = o /\ ~w.subscriptions[s].closed}

\* the callback unsubscribes observer `target` through the first of its
\* subscriptions that is still open, when there is one
CallbackUnsubscribes(w, target) ==
  IF OpenSubscriptions(w, target) = {} THEN w
  ELSE SubscriptionUnsubscribe(w,
         CHOOSE s \in OpenSubscriptions(w, target) :
           \A r \in OpenSubscriptions(w, target) : s <= r)

RECURSIVE Notify(_, _, _, _)

\* the tail of subscribe, from the replay of the last value on.  The
\* subscriptions are kept in the order in which their observers were pushed:
\* `n` of them existed when this observer was, those that its callbacks
\* created since come after it.
SubjectSubscribeEnd(w, o, n) ==
  IF w.raised THEN w
  ELSE [w EXCEPT !.subscriptions =
          SubSeq(@, 1, n) \o <<[observer |-> o, closed |-> FALSE]>>
            \o SubSeq(@, n + 1, Len(@))]

SubjectSubscribeClosed(w, o) ==
  IF ~w.raised /\ w.isClosed THEN Notify(w, o, "complete", NoValue) ELSE w

SubjectSubscribeReplay(w, o) ==
  IF w.hasValue /\ w.lastValue # NoValue
  THEN Notify(w, o, "next", w.lastValue)
  ELSE w

\* SubjectSubscribe putting the observer at the head of the list
SubjectSubscribeAtHead(w, o) ==
  SubjectSubscribeEnd(
    SubjectSubscribeClosed(
      SubjectSubscribeReplay([w EXCEPT !.observers = <<o>> \o @], o), o),
    o, Len(w.subscriptions))

SubjectSubscribe(w, o) ==
  SubjectSubscribeEnd(
    SubjectSubscribeClosed(
      SubjectSubscribeReplay([w EXCEPT !.observers = Append(@, o)], o), o),
    o, Len(w.subscriptions))

\* the application and the callbacks subscribe within the bound, and only an
\* observer that is not in the list
MaySubscribe(w, o) ==
  /\ Len(w.subscriptions) < MaxSubscriptions
  /\ Len(w.observers) < MaxSubscriptions
  /\ o \notin Range(w.observers)

\* the body of the callbacks of observer o
RunCallback(w, o) ==
  CASE Callbacks[o].does = "throw" -> [w EXCEPT !.raised = TRUE]
    [] Callbacks[o].does = "unsubscribe" ->
         CallbackUnsubscribes(w, Callbacks[o].target)
    [] Callbacks[o].does = "subscribe" ->
         IF MaySubscribe(w, Callbacks[o].target)
         THEN SubjectSubscribe(w, Callbacks[o].target)
         ELSE w
    [] OTHER -> w

\* observer.next(value), observer.error(value) or observer.complete()
Notify(w, o, kind, value) ==
  RunCallback([w EXCEPT !.lastSeen[o] = IF kind = "next" THEN value ELSE @,
                        !.trace = Append(@, [observer |-> o, kind |-> kind,
                                             value |-> value])],
              o)

\* Caught letting the exception through
CaughtNothing(w) == w

\* try { ... } catch (err) { console.error(...) } around a callback
Caught(w) == [w EXCEPT !.raised = FALSE]

\* for (const observer of this.observers): the array is read at each step
RECURSIVE Deliver(_, _, _, _)
Deliver(w, i, kind, value) ==
  IF i > Len(w.observers) \/ w.raised THEN w
  ELSE Deliver(Caught(Notify(w, w.observers[i], kind, value)),
               i + 1, kind, value)

SubjectNext(w, value) ==
  IF w.isClosed THEN w
  ELSE Deliver([w EXCEPT !.lastValue = value, !.hasValue = TRUE],
               1, "next", value)

\* this.observers = []
SubjectClear(w) ==
  IF w.raised THEN w
  ELSE [w EXCEPT !.observers = <<>>,
                 !.lastSeen = [o \in AllObserverIds |-> NoValue]]

SubjectError(w, err) ==
  IF w.isClosed THEN w
  ELSE SubjectClear(
         Deliver([w EXCEPT !.isClosed = TRUE,
                           !.ended = [kind |-> "error", value |-> err]],
                 1, "error", err))

SubjectComplete(w) ==
  IF w.isClosed THEN w
  ELSE SubjectClear(
         Deliver([w EXCEPT !.isClosed = TRUE,
                           !.ended = [kind |-> "complete", value |-> NoValue]],
                 1, "complete", NoValue))

\* ===================================================== TransactionManager
\* ManagerBeginTransaction that schedules no watchdog
ManagerBeginTransactionWithoutWatchdog(w, options) ==
  LET mergedOptions == ShallowMerge(DEFAULT_TRANSACTION_OPTIONS, options)
      id == Len(w.contexts) + 1
      context == [status |-> "PENDING", timeout |-> mergedOptions["timeout"],
                  snapshot |-> NoValue, beganAt |-> w.state]
  IN [w EXCEPT !.contexts = Append(@, context),
               !.activeTransactions = @ \cup {id}]

ManagerBeginTransaction(w, options) ==
  LET mergedOptions == ShallowMerge(DEFAULT_TRANSACTION_OPTIONS, options)
      id == Len(w.contexts) + 1
      context == [status |-> "PENDING", timeout |-> mergedOptions["timeout"],
                  snapshot |-> NoValue, beganAt |-> w.state]
  IN [w EXCEPT !.contexts = Append(@, context),
               !.activeTransactions = @ \cup {id},
               !.timers = IF TruthyNumber(mergedOptions, "timeout")
                          THEN @ \cup {id} ELSE @]

\* ManagerCheck without its two checks
ManagerCheckNothing(w, id) == "ok"

\* the two checks that open commitTransaction and rollbackTransaction
ManagerCheck(w, id) ==
  IF id \notin w.activeTransactions THEN "TransactionNotFound"
  ELSE IF w.contexts[id].status # "PENDING" THEN "InvalidTransactionState"
  ELSE "ok"

\* ManagerEnd leaving the id in the active set
ManagerEndKeepingActive(w, id, status) ==
  [w EXCEPT !.contexts[id].status = status]

ManagerEnd(w, id, status) ==
  [w EXCEPT !.contexts[id].status = status,
            !.activeTransactions = @ \ {id}]

ManagerCommitTransaction(w, id) ==
  LET err == ManagerCheck(w, id)
  IN [err |-> err,
      w |-> IF err = "ok" THEN ManagerEnd(w, id, "COMMITTED") ELSE w]

\* ManagerRollbackTransaction ending the context even when its checks fail
ManagerRollbackTransactionAnyway(w, id) ==
  [err |-> ManagerCheck(w, id), w |-> ManagerEnd(w, id, "ROLLED_BACK")]

ManagerRollbackTransaction(w, id) ==
  LET err == ManagerCheck(w, id)
  IN [err |-> err,
      w |-> IF err = "ok" THEN ManagerEnd(w, id, "ROLLED_BACK") ELSE w]

\* ManagerLogOperation pushing a new log at every call
ManagerLogOperationNewLog(w, transactionId, operation) ==
  [w EXCEPT !.transactionLogs =
     Append(@, [transactionId |-> transactionId,
                operations |-> <<operation>>])]

ManagerLogOperation(w, transactionId, operation) ==
  IF \E i \in 1..Len(w.transactionLogs) :
       w.transactionLogs[i].transactionId = transactionId
  THEN LET i == CHOOSE j \in 1..Len(w.transactionLogs) :
                  /\ w.transactionLogs[j].transactionId = transactionId
                  /\ \A k \in 1..(j - 1) :
                       w.transactionLogs[k].transactionId # transactionId
       IN [w EXCEPT !.transactionLogs[i].operations = Append(@, operation)]
  ELSE [w EXCEPT !.transactionLogs =
          Append(@, [transactionId |-> transactionId,
                     operations |-> <<operation>>])]

\* ========================================================== SafeFlowStore
StoreGetState(w) == w.state

StoreSetState(w, partial) ==
  LET w1 == [w EXCEPT !.state = ShallowMerge(w.state, partial)]
  IN SubjectNext(w1, StoreGetState(w1))

\* StoreResetState publishing the value as it is
StoreResetStateKeepingState(w, initial) == SubjectNext(w, StoreGetState(w))

StoreResetState(w, initial) ==
  LET w1 == [w EXCEPT !.state = initial]
  IN SubjectNext(w1, StoreGetState(w1))

\* StoreBeginTransaction keeping the initial state as the snapshot
StoreBeginTransactionStaleSnapshot(w, options) ==
  LET w1 == ManagerBeginTransaction(w, options)
      id == Len(w1.contexts)
  IN [w1 EXCEPT !.contexts[id].snapshot = [f \in Fields |-> 0]]

StoreBeginTransaction(w, options) ==
  LET w1 == ManagerBeginTransaction(w, options)
      id == Len(w1.contexts)
  IN [w1 EXCEPT !.contexts[id].snapshot = w1.state]

\* StoreCommitTransaction going back to the snapshot before it publishes
StoreCommitTransactionRestoring(w, id) ==
  LET r == ManagerCommitTransaction(w, id)
  IN IF r.err = "ok"
     THEN [err |-> "ok",
           w |-> SubjectNext([r.w EXCEPT !.state = r.w.contexts[id].snapshot],
                             r.w.contexts[id].snapshot)]
     ELSE r

StoreCommitTransaction(w, id) ==
  LET r == ManagerCommitTransaction(w, id)
  IN IF r.err = "ok"
     THEN [err |-> "ok", w |-> SubjectNext(r.w, StoreGetState(r.w))]
     ELSE r

\* StoreRestore leaving the value as it is
StoreRestoreNothing(w, id) == w

StoreRestore(w, id) ==
  IF w.contexts[id].snapshot # NoValue
  THEN [w EXCEPT !.state = w.contexts[id].snapshot]
  ELSE w

\* StoreRollbackTransaction refusing to roll back once a transaction begun
\* later has been committed
StoreRollbackTransactionDetectingConflict(w, id) ==
  IF \E other \in (id + 1)..Len(w.contexts) :
       w.contexts[other].status = "COMMITTED"
  THEN [err |-> "Conflict", w |-> w]
  ELSE LET r == ManagerRollbackTransaction(StoreRestore(w, id), id)
       IN IF r.err = "ok"
          THEN [err |-> "ok", w |-> SubjectNext(r.w, StoreGetState(r.w))]
          ELSE r

\* StoreRollbackTransaction publishing before it restores
StoreRollbackTransactionPublishFirst(w, id) ==
  LET r == ManagerRollbackTransaction(w, id)
  IN IF r.err = "ok"
     THEN [err |-> "ok",
           w |-> StoreRestore(SubjectNext(r.w, StoreGetState(r.w)), id)]
     ELSE [r EXCEPT !.w = StoreRestore(r.w, id)]

StoreRollbackTransaction(w, id) ==
  LET w1 == StoreRestore(w, id)
      r == ManagerRollbackTransaction(w1, id)
  IN IF r.err = "ok"
     THEN [err |-> "ok", w |-> SubjectNext(r.w, StoreGetState(r.w))]
     ELSE r

\* the function SafeFlowStore.executeTransaction hands to the manager, run as
\* the k-th invocation of `body` under context `id`
RECURSIVE BodySetStates(_, _)
BodySetStates(w, partials) ==
  IF partials = <<>> THEN w
  ELSE BodySetStates(StoreSetState(w, Head(partials)), Tail(partials))

BodyFails(body, k) == k <= body.failCount
\* fn(context) throws: a failing async body returns a promise instead
BodyThrows(body, k) == ~body.async /\ BodyFails(body, k)
BodyReturns(body, k) == IF body.async THEN PromiseOf(k) ELSE ValueOf(k)

\* context.data = { snapshot: { ...this.state } }
StoreTakeSnapshot(w, id) == [w EXCEPT !.contexts[id].snapshot = w.state]

\* StoreWrappedFnEnd logging the update of a failed body as well
StoreWrappedFnEndLoggingFailures(w, id, body, k) ==
  IF BodyThrows(body, k)
  THEN [ok |-> FALSE, result |-> ErrorOf(k),
        w |-> StoreRestore(
                ManagerLogOperation(w, id,
                  [type |-> "update", target |-> "store",
                   data |-> StoreGetState(w)]), id)]
  ELSE [ok |-> TRUE, result |-> BodyReturns(body, k),
        w |-> ManagerLogOperation(w, id,
                [type |-> "update", target |-> "store",
                 data |-> StoreGetState(w)])]

\* after fn(context): log the update and return, or restore and rethrow
StoreWrappedFnEnd(w, id, body, k) ==
  IF BodyThrows(body, k)
  THEN [ok |-> FALSE, result |-> ErrorOf(k), w |-> StoreRestore(w, id)]
  ELSE [ok |-> TRUE, result |-> BodyReturns(body, k),
        w |-> ManagerLogOperation(w, id,
                [type |-> "update", target |-> "store",
                 data |-> StoreGetState(w)])]

StoreWrappedFn(w, id, body, k) ==
  StoreWrappedFnEnd(BodySetStates(StoreTakeSnapshot(w, id), body.partials),
                    id, body, k)

\* begin, fn(context), commit: the try block of executeTransaction and of
\* retryTransaction.  `c` is the outcome of the commit, `r` of fn(context).
ManagerAttemptCommitted(c, result, id) ==
  IF c.err = "ok"
  THEN [ok |-> TRUE, result |-> result, w |-> c.w, id |-> id]
  ELSE [ok |-> FALSE, result |-> <<c.err, id>>, w |-> c.w, id |-> id]

ManagerAttemptEnd(r, id) ==
  IF r.ok
  THEN ManagerAttemptCommitted(ManagerCommitTransaction(r.w, id), r.result, id)
  ELSE [ok |-> FALSE, result |-> r.result, w |-> r.w, id |-> id]

ManagerAttempt(w, body, options, k) ==
  ManagerAttemptEnd(
    StoreWrappedFn(ManagerBeginTransaction(w, options),
                   Len(w.contexts) + 1, body, k),
    Len(w.contexts) + 1)

\* the condition under which a failed retry attempt schedules another one
RetryAgain(options, retriesLeft) ==
  retriesLeft > 1 /\ TruthyNumber(options, "retryDelay")

\* `a` is the attempt retryTransaction made
ManagerRetryTransactionEnd(a, options, retriesLeft) ==
  IF a.ok
  THEN [outcome |-> "returned", result |-> a.result, w |-> a.w,
        ids |-> <<a.id>>, retriesLeft |-> 0]
  ELSE IF RetryAgain(options, retriesLeft)
       THEN [outcome |-> "promise", result |-> NoResult, w |-> a.w,
             ids |-> <<a.id>>, retriesLeft |-> retriesLeft - 1]
       ELSE [outcome |-> "threw", result |-> a.result, w |-> a.w,
             ids |-> <<a.id>>, retriesLeft |-> 0]

ManagerRetryTransaction(w, body, options, retriesLeft, k) ==
  ManagerRetryTransactionEnd(ManagerAttempt(w, body, options, k),
                             options, retriesLeft)

\* AutoRetry not looking at the autoRetry option
AutoRetryWhateverTheFlag(options) ==
  /\ TruthyNumber(options, "maxRetries")
  /\ options["maxRetries"] > 0

\* the condition under which a failed first attempt enters retryTransaction
AutoRetry(options) ==
  /\ TruthyBoolean(options, "autoRetry")
  /\ TruthyNumber(options, "maxRetries")
  /\ options["maxRetries"] > 0

\* what executeTransaction returns when it returns retryTransaction's result
ManagerRetried(rt, id) == [rt EXCEPT !.ids = <<id>> \o @]

\* the catch block of executeTransaction, `rb` being the outcome of its
\* rollbackTransaction and `a` the failed first attempt
ManagerExecuteCatch(rb, a, body, options) ==
  IF rb.err # "ok"
  THEN [outcome |-> "threw", result |-> <<rb.err, a.id>>, w |-> rb.w,
        ids |-> <<a.id>>, retriesLeft |-> 0]
  ELSE IF AutoRetry(options)
       THEN ManagerRetried(
              ManagerRetryTransaction(rb.w, body, options,
                                      options["maxRetries"], 2), a.id)
       ELSE [outcome |-> "threw", result |-> a.result, w |-> rb.w,
             ids |-> <<a.id>>, retriesLeft |-> 0]

ManagerExecuteEnd(a, body, options) ==
  IF a.ok
  THEN [outcome |-> "returned", result |-> a.result, w |-> a.w,
        ids |-> <<a.id>>, retriesLeft |-> 0]
  ELSE ManagerExecuteCatch(ManagerRollbackTransaction(a.w, a.id),
                           a, body, options)

ManagerExecuteTransaction(w, body, options) ==
  ManagerExecuteEnd(ManagerAttempt(w, body, options, 1), body, options)

\* setTimeout: of two timers, the one set first with no longer a delay fires
\* first
TimerMayFire(w, id) ==
  \A j \in w.timers :
     j < id => w.contexts[j].timeout > w.contexts[id].timeout

\* ManagerTimeout rolling back without looking at the context
ManagerTimeoutUnchecked(w, id) ==
  [fired |-> TRUE, w |-> ManagerEnd(w, id, "ROLLED_BACK")]

\* the watchdog installed by beginTransaction, when its timer fires; when it
\* rolls back it then throws out of the timer callback (`fired`)
ManagerTimeout(w, id) ==
  IF id \in w.activeTransactions /\ w.contexts[id].status = "PENDING"
  THEN [fired |-> TRUE, w |-> ManagerRollbackTransaction(w, id).w]
  ELSE [fired |-> FALSE, w |-> w]

\* ================================================================ actions
Init ==
  /\ initialState \in InitialStates
  /\ state = initialState
  /\ observers = <<>>
  /\ isClosed = FALSE
  /\ lastValue = NoValue
  /\ hasValue = FALSE
  /\ contexts = <<>>
  /\ activeTransactions = {}
  /\ transactionLogs = <<>>
  /\ timers = {}
  /\ subscriptions = <<>>
  /\ call = NoCall
  /\ ended = NotEnded
  /\ history = <<>>
  /\ lastSeen = [o \in AllObserverIds |-> NoValue]
  /\ trace = <<>>
  /\ lastOp = [name |-> "new", id |-> 0, err |-> "ok", before |-> state]
  /\ transactions = <<>>
  /\ currentTransaction = 0
  /\ transactionStack = <<>>
  /\ calls = <<>>

\* what an operation other than executeTransaction leaves of `call`: a
\* settled call is forgotten, a call waiting for its retry timer is kept
Forget == IF call.pending \/ call.running THEN call ELSE NoCall

Done(name, id, err) ==
  /\ lastOp' = [name |-> name, id |-> id, err |-> err, before |-> state]
  /\ call' = Forget
  /\ UNCHANGED initialState

SetState(partial) ==
  /\ Install(StoreSetState(World, partial))
  /\ Done("setState", 0, "ok")

ResetState ==
  /\ Install(StoreResetState(World, initialState))
  /\ Done("resetState", 0, "ok")

Subscribe(o) ==
  /\ o \notin Range(observers)
  /\ Install(SubjectSubscribe(World, o))
  /\ Done("subscribe", o, "ok")

\* the application lets go of the s-th subscription
Dropped(w, s) ==
  [w EXCEPT !.subscriptions =
     SubSeq(@, 1, s - 1) \o SubSeq(@, s + 1, Len(@))]

\* unsubscribe() on the subscription that subscribe(o) returned, once
Unsubscribe(o) ==
  /\ o \in Range(observers)
  /\ \E s \in OpenSubscriptions(World, o) :
       Install(Dropped(SubscriptionUnsubscribe(World, s), s))
  /\ Done("unsubscribe", o, "ok")

BeginTransaction(options) ==
  /\ Len(contexts) < MaxTx
  /\ Len(contexts) < Cardinality(TransactionIds)
  /\ Install(StoreBeginTransaction(World, options))
  /\ Done("beginTransaction", Len(contexts) + 1, "ok")

CommitTransaction(id) ==
  LET r == StoreCommitTransaction(World, id)
  IN /\ Install(r.w)
     /\ Done("commitTransaction", id, r.err)

RollbackTransaction(id) ==
  LET r == StoreRollbackTransaction(World, id)
  IN /\ Install(r.w)
     /\ Done("rollbackTransaction", id, r.err)

\* the caller of executeTransaction gets `r`
ExecuteReturn(r, body, options) ==
  /\ Len(r.w.contexts) <= Cardinality(TransactionIds)
  /\ Install(r.w)
  /\ call' = [pending |-> r.outcome = "promise", running |-> body.async,
              body |-> body,
              options |-> options, ids |-> r.ids,
              invocations |-> Len(r.ids), outcome |-> r.outcome,
              result |-> r.result, retriesLeft |-> r.retriesLeft]
  /\ lastOp' = [name |-> "executeTransaction", id |-> r.ids[1],
                err |-> "ok", before |-> state]

ExecuteTransaction(body, options) ==
  /\ ~call.pending
  /\ ~call.running
  /\ Len(contexts) < Cardinality(TransactionIds)
  /\ ExecuteReturn(ManagerExecuteTransaction(World, body, options),
                   body, options)
  /\ UNCHANGED initialState

\* the promise of the pending call is settled by `r`, or stays pending
RetrySettle(r) ==
  /\ Install(r.w)
  /\ call' = [call EXCEPT
                !.pending = (r.outcome = "promise"),
                !.ids = @ \o r.ids,
                !.invocations = @ + 1,
                !.outcome = CASE r.outcome = "returned" -> "resolved"
                              [] r.outcome = "threw" -> "rejected"
                              [] OTHER -> "promise",
                !.result = r.result,
                !.retriesLeft = r.retriesLeft]
  /\ lastOp' = [name |-> "retryTimer", id |-> r.ids[1], err |-> "ok",
                before |-> state]

\* the setTimeout callback of retryTransaction, after retryDelay
RetryTimer ==
  /\ call.pending
  /\ Len(contexts) < Cardinality(TransactionIds)
  /\ RetrySettle(ManagerRetryTransaction(World, call.body, call.options,
                                         call.retriesLeft,
                                         call.invocations + 1))
  /\ UNCHANGED initialState

\* the setTimeout callback of beginTransaction, after the timeout
Watchdog(id) ==
  /\ id \in timers
  /\ TimerMayFire(World, id)
  /\ LET r == ManagerTimeout([World EXCEPT !.timers = @ \ {id}], id)
     IN /\ Install(r.w)
        /\ lastOp' = [name |-> "watchdog", id |-> id,
                      err |-> IF r.fired THEN "TransactionTimeout" ELSE "ok",
                      before |-> state]
  /\ call' = Forget
  /\ UNCHANGED initialState

\* the application and the timers, on a store used through beginTransaction,
\* commitTransaction and rollbackTransaction
StoreNext ==
  \/ \E partial \in Partials : SetState(partial)
  \/ ResetState
  \/ \E o \in ObserverIds : Subscribe(o)
  \/ \E o \in ObserverIds : Unsubscribe(o)
  \/ \E options \in BeginOptions : BeginTransaction(options)
  \/ \E id \in 1..Len(contexts) : CommitTransaction(id)
  \/ \E id \in 1..Len(contexts) : RollbackTransaction(id)
  \/ \E id \in timers : Watchdog(id)

StoreSpec == Init /\ [][StoreNext]_vars

\* the same, with executeTransaction and its retries
Next ==
  \/ \E partial \in Partials : SetState(partial)
  \/ ResetState
  \/ \E o \in ExecuteObserverIds : Subscribe(o)
  \/ \E o \in ExecuteObserverIds : Unsubscribe(o)
  \/ \E options \in ExecuteBeginOptions : BeginTransaction(options)
  \/ \E id \in 1..Len(contexts) : CommitTransaction(id)
  \/ \E id \in 1..Len(contexts) : RollbackTransaction(id)
  \/ \E body \in Bodies, options \in ExecuteOptions :
       ExecuteTransaction(body, options)
  \/ RetryTimer
  \/ \E id \in timers : Watchdog(id)

Spec == Init /\ [][Next]_vars

\* the promise returned by the async body of the call settles; no handler of
\* the store or of the manager is attached to it
BodySettles ==
  /\ call.running
  /\ Install(World)
  /\ call' = [call EXCEPT !.running = FALSE]
  /\ lastOp' = [name |-> "bodySettled", id |-> call.ids[1],
                err |-> IF BodyFails(call.body, 1) THEN "rejected" ELSE "ok",
                before |-> state]
  /\ UNCHANGED initialState

\* the store used through executeTransaction with async bodies
AsyncNext ==
  \/ \E partial \in Partials : SetState(partial)
  \/ \E o \in ExecuteObserverIds : Subscribe(o)
  \/ \E o \in ExecuteObserverIds : Unsubscribe(o)
  \/ \E body \in AsyncBodies, options \in AsyncExecuteOptions :
       ExecuteTransaction(body, options)
  \/ BodySettles
  \/ \E id \in timers : Watchdog(id)

AsyncSpec == Init /\ [][AsyncNext]_vars

\* ------------------------------------------ a run of setState calls only
SetStateOnly(partial) ==
  /\ Len(history) < MaxSetStates
  /\ Install([StoreSetState(World, partial)
               EXCEPT !.history = Append(@, partial)])
  /\ Done("setState", 0, "ok")

SetStateStep == \E partial \in AllPartials : SetStateOnly(partial)

SetStateSpec == Init /\ [][SetStateStep]_vars

\* ------------------------------------------- a SafeFlowSubject on its own
\* how a call on the subject ended; `again` tells an unsubscribe() made on a
\* subscription that was closed already
SubjectDone(name, id, w, again) ==
  /\ Install(w)
  /\ lastOp' = [name |-> name, id |-> id,
                err |-> IF w.raised THEN "ObserverError" ELSE "ok",
                before |-> state, again |-> again]
  /\ UNCHANGED <<initialState, call>>

SubscribeCall(o) ==
  /\ MaySubscribe(World, o)
  /\ SubjectDone("subscribe", o, SubjectSubscribe(World, o), FALSE)

UnsubscribeCall(s) ==
  SubjectDone("unsubscribe", s, SubscriptionUnsubscribe(World, s),
              subscriptions[s].closed)

NextCall(value) == SubjectDone("next", 0, SubjectNext(World, value), FALSE)

ErrorCall(err) == SubjectDone("error", 0, SubjectError(World, err), FALSE)

CompleteCall == SubjectDone("complete", 0, SubjectComplete(World), FALSE)

SubjectStep ==
  \/ \E o \in SubjectObserverIds : SubscribeCall(o)
  \/ \E s \in 1..Len(subscriptions) : UnsubscribeCall(s)
  \/ \E value \in SubjectValues : NextCall(value)
  \/ \E err \in SubjectErrors : ErrorCall(err)
  \/ CompleteCall

SubjectSpec == Init /\ [][SubjectStep]_vars

TypeOK ==
  /\ state \in States
  /\ initialState \in States
  /\ Range(observers) \subseteq AllObserverIds
  /\ \A s \in 1..Len(subscriptions) :
       subscriptions[s].observer \in AllObserverIds
  /\ activeTransactions \subseteq 1..Len(contexts)
  /\ timers \subseteq 1..Len(contexts)

\* ------------------------------------------------- the transaction logs
\* the ids and the operations passed to TransactionManager.logOperation
LoggedIds == {1, 2}
LoggedOperations ==
  {[type |-> t, target |-> "store", data |-> s] :
     t \in {"update", "delete"}, s \in InitialStates}

RECURSIVE CountLogged(_)
CountLogged(logs) ==
  IF logs = <<>> THEN 0
  ELSE Len(Head(logs).operations) + CountLogged(Tail(logs))

LogOperation(transactionId, operation) ==
  /\ CountLogged(transactionLogs) < MaxLogged
  /\ Install(ManagerLogOperation(World, transactionId, operation))
  /\ lastOp' = [name |-> "logOperation", id |-> transactionId, err |-> "ok",
                before |-> state, operation |-> operation]
  /\ call' = Forget
  /\ UNCHANGED initialState

ManagerClearTransactionLogs(w) == [w EXCEPT !.transactionLogs = <<>>]

ClearTransactionLogs ==
  /\ Install(ManagerClearTransactionLogs(World))
  /\ Done("clearTransactionLogs", 0, "ok")

LogNext ==
  \/ \E id \in LoggedIds, operation \in LoggedOperations :
       LogOperation(id, operation)
  \/ ClearTransactionLogs
  \/ \E options \in ExecuteBeginOptions : BeginTransaction(options)
  \/ \E id \in 1..Len(contexts) : CommitTransaction(id)
  \/ \E id \in 1..Len(contexts) : RollbackTransaction(id)

LogSpec == Init /\ [][LogNext]_vars

\* ------------------------------------------- the watchdog, with fairness
\* options of beginTransaction: the default timeout, none, a short one
WatchdogBeginOptions == {<<>>, [timeout |-> 0], [timeout |-> 20]}

WatchdogNext ==
  \/ \E options \in WatchdogBeginOptions : BeginTransaction(options)
  \/ \E id \in 1..Len(contexts) : CommitTransaction(id)
  \/ \E id \in 1..Len(contexts) : RollbackTransaction(id)
  \/ \E id \in timers : Watchdog(id)

\* a timer that was set fires once its delay has elapsed: the callback of
\* setTimeout is not postponed for ever
WatchdogSpec ==
  /\ Init
  /\ [][WatchdogNext]_vars
  /\ \A id \in TransactionIds : WF_vars(Watchdog(id))

\* ===================================== the stack-based TransactionManager
\* currentTransaction when there is none
Undefined == 0

\* the actions passed to executeWithinTransaction: a plain function or an
\* async one (as in CRUDOperations.create), that returns or fails
TransactionalActions == [async : BOOLEAN, fails : BOOLEAN]

StackWorld ==
  [transactions |-> transactions, currentTransaction |-> currentTransaction,
   transactionStack |-> transactionStack]

StackInstall(s) ==
  /\ transactions' = s.transactions
  /\ currentTransaction' = s.currentTransaction
  /\ transactionStack' = s.transactionStack
  /\ UNCHANGED <<state, initialState, observers, isClosed, lastValue,
                 hasValue, contexts, activeTransactions, transactionLogs,
                 timers, subscriptions, call, ended, history, lastSeen,
                 trace>>

\* beginTransaction that pushes nothing on the stack
StackBeginTransactionWithoutPush(s) ==
  [transactions |->
     Append(s.transactions,
            [id |-> Len(s.transactions) + 1, status |-> "PENDING",
             outer |-> s.currentTransaction]),
   currentTransaction |-> Len(s.transactions) + 1,
   transactionStack |-> s.transactionStack]

\* `outer` remembers the transaction that was current at the begin; the
\* code keeps no such field
StackBeginTransaction(s) ==
  [transactions |->
     Append(s.transactions,
            [id |-> Len(s.transactions) + 1, status |-> "PENDING",
             outer |-> s.currentTransaction]),
   currentTransaction |-> Len(s.transactions) + 1,
   transactionStack |->
     IF s.currentTransaction # Undefined
     THEN Append(s.transactionStack, s.currentTransaction)
     ELSE s.transactionStack]

\* Array.prototype.pop: the last element, undefined on an empty array
StackPop(stack) ==
  IF stack = <<>> THEN Undefined ELSE stack[Len(stack)]

StackPopped(stack) ==
  IF stack = <<>> THEN stack ELSE SubSeq(stack, 1, Len(stack) - 1)

\* the common body of commit() and rollback()
StackEnd(s, status) ==
  IF s.currentTransaction = Undefined
  THEN [err |-> "NoActiveTransaction", s |-> s]
  ELSE [err |-> "ok",
        s |-> [transactions |->
                 [s.transactions EXCEPT ![s.currentTransaction].status =
                    status],
               currentTransaction |-> StackPop(s.transactionStack),
               transactionStack |-> StackPopped(s.transactionStack)]]

StackCommit(s) == StackEnd(s, "COMMITTED")

StackRollback(s) == StackEnd(s, "ROLLED_BACK")

\* where a call stands after this.rollback() was called in its catch block
AfterRollback(r) ==
  IF r.err = "ok" THEN "rejected" ELSE "rejectedByRollback"

\* executeWithinTransaction up to its first suspension: the transaction is
\* begun and the action called; an action that throws is rolled back at once
ExecuteWithinTransaction(action) ==
  /\ Len(calls) < MaxCalls
  /\ LET s == StackBeginTransaction(StackWorld)
         r == StackRollback(s)
     IN IF ~action.async /\ action.fails
        THEN /\ StackInstall(r.s)
             /\ calls' = Append(calls,
                                [fails |-> TRUE, pc |-> AfterRollback(r)])
        ELSE /\ StackInstall(s)
             /\ calls' = Append(calls,
                                [fails |-> action.fails, pc |-> "action"])
  /\ lastOp' = [name |-> "executeWithinTransaction", id |-> Len(calls) + 1,
                err |-> "ok", before |-> state]

\* the call resumes after `await action()`: commit() when the action
\* returned, rollback() when its promise was rejected
ActionSettles(c) ==
  /\ calls[c].pc = "action"
  /\ LET r == IF calls[c].fails
              THEN StackRollback(StackWorld)
              ELSE StackCommit(StackWorld)
     IN /\ StackInstall(r.s)
        /\ calls' = [calls EXCEPT ![c].pc =
                       IF calls[c].fails THEN AfterRollback(r)
                       ELSE IF r.err = "ok" THEN "resolved"
                       ELSE "commitFailed"]
        /\ lastOp' = [name |-> "actionSettled", id |-> c, err |-> r.err,
                      before |-> state]

\* the call resumes after `await this.commit()` was rejected: the catch
\* block calls rollback()
CommitRejected(c) ==
  /\ calls[c].pc = "commitFailed"
  /\ LET r == StackRollback(StackWorld)
     IN /\ StackInstall(r.s)
        /\ calls' = [calls EXCEPT ![c].pc = AfterRollback(r)]
        /\ lastOp' = [name |-> "commitRejected", id |-> c, err |-> r.err,
                      before |-> state]

\* commit() and rollback() called from outside executeWithinTransaction
StackCommitCall ==
  /\ LET r == StackCommit(StackWorld)
     IN /\ StackInstall(r.s)
        /\ lastOp' = [name |-> "commit", id |-> 0, err |-> r.err,
                      before |-> state]
  /\ UNCHANGED calls

StackRollbackCall ==
  /\ LET r == StackRollback(StackWorld)
     IN /\ StackInstall(r.s)
        /\ lastOp' = [name |-> "rollback", id |-> 0, err |-> r.err,
                      before |-> state]
  /\ UNCHANGED calls

\* calls of executeWithinTransaction only, resumed in any order
StackNext ==
  \/ \E action \in TransactionalActions : ExecuteWithinTransaction(action)
  \/ \E c \in 1..Len(calls) : ActionSettles(c)

StackSpec == Init /\ [][StackNext]_vars

\* the same, with commit() and rollback() called directly as well
NestedNext ==
  \/ \E action \in TransactionalActions : ExecuteWithinTransaction(action)
  \/ \E c \in 1..Len(calls) : ActionSettles(c)
  \/ \E c \in 1..Len(calls) : CommitRejected(c)
  \/ StackCommitCall
  \/ StackRollbackCall

NestedSpec == Init /\ [][NestedNext]_vars

\* ================================================================= claims
AfterExecute == lastOp.name \in {"executeTransaction", "retryTimer"}
Subscribed == Range(observers)
Status(id) == contexts[id].status

\* C1 (as claimed): a setState made while a transaction of the store is
\* PENDING invokes no observer's next; observers are only notified at a
\* commit, at a rollback, or by a setState/resetState outside a transaction.
C1_NoDeliveryInsideTransaction ==
  (lastOp.name = "setState" /\ activeTransactions # {}) => trace = <<>>

\* C2: right after rollbackTransaction(ctx), getState() is the value it had
\* when beginTransaction returned ctx, whatever setState calls came between.
C2_RollbackRestoresBeginValue ==
  lastOp.name = "rollbackTransaction" =>
    StoreGetState(World) = contexts[lastOp.id].beganAt

\* a rollback that discarded a setState made after the begin
C2_Witness ==
  /\ lastOp.name = "rollbackTransaction"
  /\ lastOp.err = "ok"
  /\ lastOp.before # contexts[lastOp.id].beganAt
  /\ state = contexts[lastOp.id].beganAt

\* C3: a rollbackTransaction(ctx) that succeeds notifies every subscribed
\* observer once more, and the value each of them then holds as its last one
\* is the state at beginTransaction, not a value set during the transaction.
C3_RollbackPublishesRestoredValue ==
  (lastOp.name = "rollbackTransaction" /\ lastOp.err = "ok") =>
    /\ \A o \in Subscribed :
         /\ lastSeen[o] = contexts[lastOp.id].beganAt
         /\ \E i \in 1..Len(trace) :
              trace[i] = [observer |-> o, kind |-> "next",
                          value |-> contexts[lastOp.id].beganAt]
    /\ Len(trace) = Len(observers)

\* two observers notified of the restored value, the value before the
\* rollback being another one
C3_Witness ==
  /\ lastOp.name = "rollbackTransaction"
  /\ lastOp.err = "ok"
  /\ Len(observers) = 2
  /\ lastOp.before # contexts[lastOp.id].beganAt
  /\ \A o \in Subscribed : lastSeen[o] = contexts[lastOp.id].beganAt

\* C4: when the body of executeTransaction throws and autoRetry is not set,
\* getState() after the call is getState() before it, whatever the body set,
\* and the transaction is ROLLED_BACK.
C4_FailedExecuteRestores ==
  (/\ lastOp.name = "executeTransaction"
   /\ BodyThrows(call.body, 1)
   /\ ~TruthyBoolean(call.options, "autoRetry")) =>
    /\ call.outcome = "threw"
    /\ StoreGetState(World) = lastOp.before
    /\ Status(call.ids[1]) = "ROLLED_BACK"

\* a failed body that had set a field to another value (the observer holds it)
C4_Witness ==
  /\ lastOp.name = "executeTransaction"
  /\ BodyThrows(call.body, 1)
  /\ ~TruthyBoolean(call.options, "autoRetry")
  /\ call.body.partials # <<>>
  /\ \E i \in 1..Len(trace) : trace[i].value # lastOp.before
  /\ state = lastOp.before

\* C5 (as claimed): once executeTransaction has failed, the last value each
\* subscribed observer was given is getState().
C5_FailedExecutePublishesRestored ==
  (AfterExecute /\ call.outcome \in {"threw", "rejected"}) =>
    \A o \in Subscribed : lastSeen[o] = StoreGetState(World)

\* C6 (as claimed): executeTransaction(fn, {autoRetry: true, maxRetries: N}),
\* N >= 1, with a body that always fails invokes the body N + 1 times and
\* surfaces the error of the last attempt.
C6_AlwaysFailingBodyIsTriedNPlusOneTimes ==
  (/\ AfterExecute
   /\ ~call.pending
   /\ DOMAIN call.options = {"autoRetry", "maxRetries"}
   /\ call.options["autoRetry"]
   /\ call.options["maxRetries"] >= 1
   /\ call.body.failCount = AlwaysFails) =>
    /\ call.invocations = call.options["maxRetries"] + 1
    /\ call.outcome \in {"threw", "rejected"}
    /\ call.result = ErrorOf(call.options["maxRetries"] + 1)

\* C7 (as claimed): with autoRetry and maxRetries >= 2, a body that fails
\* twice and then succeeds is invoked 3 times, the call yields the value of
\* the third invocation and the third transaction is COMMITTED.
C7_SucceedsOnThirdAttempt ==
  (/\ AfterExecute
   /\ ~call.pending
   /\ TruthyBoolean(call.options, "autoRetry")
   /\ Has(call.options, "maxRetries")
   /\ call.options["maxRetries"] >= 2
   /\ call.body.failCount = 2) =>
    /\ call.invocations = 3
    /\ call.outcome \in {"returned", "resolved"}
    /\ call.result = ValueOf(3)
    /\ Status(call.ids[3]) = "COMMITTED"

\* C8 (as claimed): every attempt of executeTransaction whose body failed,
\* the first and the retries alike, is ROLLED_BACK and out of the active set
\* once the call has surfaced the failure or gone on to the next attempt.
C8_NoFailedAttemptLeftPending ==
  AfterExecute =>
    \A i \in 1..Len(call.ids) :
       BodyFails(call.body, i) =>
         /\ Status(call.ids[i]) = "ROLLED_BACK"
         /\ call.ids[i] \notin activeTransactions

\* C9: when the body fails and autoRetry is not set (or maxRetries is 0), the
\* caller gets the very error the body raised, the transaction has been
\* rolled back, and the body is not invoked again.
C9_ErrorPropagatesUnchanged ==
  (/\ lastOp.name = "executeTransaction"
   /\ BodyFails(call.body, 1)
   /\ \/ ~TruthyBoolean(call.options, "autoRetry")
      \/ (Has(call.options, "maxRetries")
            /\ call.options["maxRetries"] = 0)) =>
    /\ call.outcome = "threw"
    /\ call.result = ErrorOf(1)
    /\ call.invocations = 1
    /\ ~call.pending
    /\ Status(call.ids[1]) = "ROLLED_BACK"
    /\ call.ids[1] \notin activeTransactions

\* a failure under autoRetry false with maxRetries given
C9_Witness ==
  /\ lastOp.name = "executeTransaction"
  /\ BodyFails(call.body, 1)
  /\ call.options = [autoRetry |-> FALSE, maxRetries |-> 1]
  /\ call.result = ErrorOf(1)

\* C10: a context's status only moves PENDING -> COMMITTED or PENDING ->
\* ROLLED_BACK; once COMMITTED or ROLLED_BACK it never changes again,
\* whatever is called on it and whenever its watchdog fires.
C10_StatusMovesOnce ==
  [][\A id \in 1..Len(contexts) :
       /\ id <= Len(contexts')
       /\ Status(id) # "PENDING" => contexts'[id].status = Status(id)
       /\ contexts'[id].status \in
            {Status(id), "COMMITTED", "ROLLED_BACK"}]_vars

\* a commit or rollback called on a context that had already ended
C10_Witness ==
  /\ lastOp.name \in {"commitTransaction", "rollbackTransaction"}
  /\ lastOp.err = "TransactionNotFound"
  /\ \E id \in 1..Len(contexts) : Status(id) = "COMMITTED"
  /\ \E id \in 1..Len(contexts) : Status(id) = "ROLLED_BACK"

\* the step is commitTransaction(ctx) or rollbackTransaction(ctx) on context id
EndsCalled(id) ==
  /\ lastOp'.name \in {"commitTransaction", "rollbackTransaction"}
  /\ lastOp'.id = id

\* C11 (as claimed): commitTransaction or rollbackTransaction on a context
\* that is already COMMITTED or ROLLED_BACK fails with InvalidTransactionState,
\* not with the TransactionNotFound of an id outside the active set.
C11_EndedContextIsInvalidState ==
  [][\A id \in 1..Len(contexts) :
       (Status(id) # "PENDING" /\ EndsCalled(id)) =>
         lastOp'.err = "InvalidTransactionState"]_vars

\* C12: commitTransaction or rollbackTransaction on a context whose id is not
\* in the active set throws the not-found error and leaves every context's
\* status, the active set and the transaction logs as they were.
C12_NotFoundChangesNothing ==
  [][\A id \in 1..Len(contexts) :
       (id \notin activeTransactions /\ EndsCalled(id)) =>
         /\ lastOp'.err = "TransactionNotFound"
         /\ contexts' = contexts
         /\ activeTransactions' = activeTransactions
         /\ transactionLogs' = transactionLogs]_vars

\* a not-found rollback while another transaction is active and the logs hold
\* an entry
C12_Witness ==
  /\ lastOp.name = "rollbackTransaction"
  /\ lastOp.err = "TransactionNotFound"
  /\ lastOp.id \notin activeTransactions
  /\ activeTransactions # {}
  /\ transactionLogs # <<>>

\* C13: when the watchdog of a context fires, whatever the application did
\* before: a context still PENDING and active becomes ROLLED_BACK and leaves
\* the active set; for a context already committed or rolled back nothing
\* changes (statuses, active set, logs).
C13_WatchdogRollsBackOnlyPending ==
  [][\A id \in 1..Len(contexts) :
       (lastOp'.name = "watchdog" /\ lastOp'.id = id) =>
         IF Status(id) = "PENDING" /\ id \in activeTransactions
         THEN /\ contexts'[id].status = "ROLLED_BACK"
              /\ activeTransactions' = activeTransactions \ {id}
         ELSE /\ contexts' = contexts
              /\ activeTransactions' = activeTransactions
              /\ transactionLogs' = transactionLogs]_vars

\* a watchdog that rolled its context back while another one, committed by
\* the application, still has its timer set
C13_Witness ==
  /\ lastOp.name = "watchdog"
  /\ lastOp.err = "TransactionTimeout"
  /\ Status(lastOp.id) = "ROLLED_BACK"
  /\ \E id \in timers : Status(id) = "COMMITTED"

\* C14 (as claimed): no error is thrown out of the timer callback of the
\* watchdog; a timeout is recorded or delivered, never raised.
C14_WatchdogNeverThrows ==
  lastOp.name = "watchdog" => lastOp.err = "ok"

\* SafeFlowSubject.getObserverCount()
GetObserverCount == Len(observers)

\* C15 (as claimed): once complete() or error() has been called on the
\* subject, in every later state getObserverCount() is 0 and a next() invokes
\* no callback, whatever was called in between.
C15_TerminatedSubjectIsInert ==
  isClosed =>
    /\ GetObserverCount = 0
    /\ lastOp.name = "next" => trace = <<>>

\* C16 (as claimed): subscribe(observer) on the store invokes observer.next
\* exactly once, with getState(), before it returns, after any number of
\* setState calls.
C16_SubscribeReplaysCurrentValue ==
  lastOp.name = "subscribe" =>
    trace = <<[observer |-> lastOp.id, kind |-> "next",
               value |-> StoreGetState(World)]>>

\* C17 (as claimed): an observer subscribing after error(err) has its error
\* callback invoked with err, and one subscribing after complete() has its
\* complete callback invoked, before subscribe returns.
C17_LateSubscriberGetsTerminalNotification ==
  (lastOp.name = "subscribe" /\ isClosed) =>
    \E i \in 1..Len(trace) :
      trace[i] = [observer |-> lastOp.id, kind |-> ended.kind,
                  value |-> ended.value]

\* the step is next, error or complete called on a subject that is not closed
Notifies == lastOp'.name \in {"next", "error", "complete"} /\ ~isClosed

\* no observer of the list subscribes or unsubscribes from its callbacks
NoReentrantObserver ==
  \A o \in Range(observers) : Callbacks[o].does \in {"nothing", "throw"}

\* C18: when callbacks of registered observers throw during next, error or
\* complete, every observer of the list is still notified, once and in order
\* of registration, and the call returns without raising.
C18_ThrowingObserverIsIsolated ==
  [][(/\ Notifies
      /\ NoReentrantObserver
      /\ \E o \in Range(observers) : Callbacks[o].does = "throw") =>
       /\ lastOp'.err = "ok"
       /\ Len(trace') = Len(observers)
       /\ \A i \in 1..Len(observers) :
            /\ trace'[i].observer = observers[i]
            /\ trace'[i].kind = lastOp'.name]_vars

\* a next() that reached an observer registered after one whose callback threw
C18_Witness ==
  /\ lastOp.name = "next"
  /\ lastOp.err = "ok"
  /\ Len(trace) = 3
  /\ Callbacks[trace[1].observer].does = "throw"
  /\ Callbacks[trace[2].observer].does = "nothing"
  /\ Callbacks[trace[3].observer].does = "nothing"

\* C19 (as claimed): next(value) invokes next on the observers that were in
\* the list when it was called, each once and no other, also when a callback
\* unsubscribes or subscribes an observer during the delivery.
C19_RecipientsAreTheListAtCallTime ==
  [][(lastOp'.name = "next" /\ ~isClosed) =>
       /\ Len(trace') = Len(observers)
       /\ \A i \in 1..Len(observers) :
            trace'[i] = [observer |-> observers[i], kind |-> "next",
                         value |-> lastValue']]_vars

\* C20: unsubscribe() called on a subscription that is closed already leaves
\* the observer list, the observer count and the closed flags as they are,
\* also when the same or other observers were subscribed since.
C20_SecondUnsubscribeChangesNothing ==
  [][\A s \in 1..Len(subscriptions) :
       (/\ lastOp'.name = "unsubscribe"
        /\ lastOp'.id = s
        /\ subscriptions[s].closed) =>
         /\ observers' = observers
         /\ subscriptions' = subscriptions]_vars

\* a second unsubscribe() while the observer of the subscription is in the
\* list again, next to another one
C20_Witness ==
  /\ lastOp.name = "unsubscribe"
  /\ lastOp.again
  /\ subscriptions[lastOp.id].observer \in Range(observers)
  /\ GetObserverCount = 2

\* the calls of `history` that passed a value for field f
Setting(f) == {i \in 1..Len(history) : f \in DOMAIN history[i]}

\* C21: after N setState(partial) calls on a new store, with nothing else
\* called, each field of getState() holds the value of the last partial that
\* has the field, and its initial value when no partial has it.
C21_StateIsTheMergeOfThePartials ==
  \A f \in Fields :
    StoreGetState(World)[f] =
      IF Setting(f) = {} THEN initialState[f]
      ELSE history[CHOOSE i \in Setting(f) : \A j \in Setting(f) : j <= i][f]

\* three calls: a field set twice, to two values, the other field set once,
\* to a value that is not its initial one
C21_Witness ==
  /\ Len(history) = 3
  /\ Cardinality(Setting("a")) = 2
  /\ \E i, j \in Setting("a") : history[i]["a"] # history[j]["a"]
  /\ Cardinality(Setting("b")) = 1
  /\ state["b"] # initialState["b"]

\* C22: no operation changes the initial state the store retains, and
\* resetState() makes getState() equal to it, after any sequence of setState,
\* resetState, transactions and executeTransaction calls.
C22_ResetReturnsToInitialState ==
  [][/\ initialState' = initialState
     /\ lastOp'.name = "resetState" =>
          StoreGetState(World)' = initialState]_vars

\* a resetState() called on another value than the initial one, after
\* transactions have ended both ways
C22_Witness ==
  /\ lastOp.name = "resetState"
  /\ lastOp.before # initialState
  /\ state = initialState
  /\ \E id \in 1..Len(contexts) : Status(id) = "COMMITTED"
  /\ \E id \in 1..Len(contexts) : Status(id) = "ROLLED_BACK"

\* C23: commitTransaction(ctx) on the store leaves getState() as it was
\* before the call, and every value it hands to an observer is that value;
\* when it succeeds each observer is handed it once.
C23_CommitKeepsAndPublishesTheValue ==
  lastOp.name = "commitTransaction" =>
    /\ StoreGetState(World) = lastOp.before
    /\ \A i \in 1..Len(trace) :
         trace[i].kind = "next" /\ trace[i].value = lastOp.before
    /\ lastOp.err = "ok" => Len(trace) = Len(observers)

\* a commit, seen by two observers, of a value set during the transaction
C23_Witness ==
  /\ lastOp.name = "commitTransaction"
  /\ lastOp.err = "ok"
  /\ Len(trace) = 2
  /\ state # contexts[lastOp.id].snapshot

\* C24: when transaction A is rolled back while still PENDING, after a
\* transaction B begun later than A has been committed, the rollback
\* succeeds and getState() is the snapshot taken when A began: nothing
\* detects the conflict.
C24_RollbackDiscardsLaterCommit ==
  [][\A A \in 1..Len(contexts) :
       (/\ lastOp'.name = "rollbackTransaction"
        /\ lastOp'.id = A
        /\ A \in activeTransactions
        /\ Status(A) = "PENDING"
        /\ \E B \in (A + 1)..Len(contexts) : Status(B) = "COMMITTED") =>
         /\ lastOp'.err = "ok"
         /\ StoreGetState(World)' = contexts[A].snapshot]_vars

\* the rollback of A undid the value that B, begun at the same value as A,
\* had set and committed
C24_Witness ==
  /\ lastOp.name = "rollbackTransaction"
  /\ lastOp.err = "ok"
  /\ \E B \in (lastOp.id + 1)..Len(contexts) :
       /\ Status(B) = "COMMITTED"
       /\ contexts[B].snapshot = contexts[lastOp.id].snapshot
  /\ lastOp.before # state

\* C25 (as claimed): a transaction of executeTransaction is not COMMITTED
\* while the promise its body returned is still pending, and when that
\* promise is rejected the transaction ends ROLLED_BACK.
C25_NoCommitBeforeTheBodyHasFinished ==
  /\ call.running => Status(call.ids[1]) # "COMMITTED"
  /\ (lastOp.name = "bodySettled" /\ lastOp.err = "rejected") =>
       Status(call.ids[1]) = "ROLLED_BACK"

\* C26 (as claimed): an executeTransaction on the store whose body returned
\* ends with one more notification of each observer, made after the commit
\* and carrying getState(), as commitTransaction does.
C26_SuccessfulExecutePublishes ==
  (lastOp.name = "executeTransaction" /\ call.outcome = "returned") =>
    /\ Len(trace) = Len(observers) * (Len(call.body.partials) + 1)
    /\ \A i \in 1..Len(observers) :
         trace[Len(trace) - Len(observers) + i] =
           [observer |-> observers[i], kind |-> "next",
            value |-> StoreGetState(World)]

\* C27 (as claimed): whenever the subject of the store holds a value and no
\* executeTransaction call is waiting for a retry, that value is getState().
C27_PublishedValueIsTheState ==
  (hasValue /\ ~call.pending) => lastValue = StoreGetState(World)

\* C28 (as claimed): whenever a context of beginTransaction becomes
\* ROLLED_BACK, through rollbackTransaction or through its watchdog,
\* getState() is then the snapshot taken when it began.
C28_EveryRollbackRestoresTheSnapshot ==
  [][\A id \in 1..Len(contexts) :
       (Status(id) = "PENDING" /\ contexts'[id].status = "ROLLED_BACK") =>
         StoreGetState(World)' = contexts[id].snapshot]_vars

\* C29 (as claimed): a rollbackTransaction(ctx) on the store that throws
\* leaves getState() as it was and invokes no observer.
C29_FailedRollbackChangesNothing ==
  (lastOp.name = "rollbackTransaction" /\ lastOp.err # "ok") =>
    /\ StoreGetState(World) = lastOp.before
    /\ trace = <<>>

\* the options the manager merges with its defaults
MergedOptions(options) == ShallowMerge(DEFAULT_TRANSACTION_OPTIONS, options)

\* C30 (as claimed): with autoRetry set, a body that always fails is invoked
\* maxRetries + 1 times, maxRetries and retryDelay being read from the
\* options merged with the defaults: 4 times for {autoRetry: true}.
C30_RetriesFollowTheMergedOptions ==
  (/\ AfterExecute
   /\ ~call.pending
   /\ TruthyBoolean(call.options, "autoRetry")
   /\ ~Has(call.options, "retryDelay")
   /\ call.body.failCount = AlwaysFails) =>
    call.invocations = MergedOptions(call.options)["maxRetries"] + 1

\* C31 (as claimed): no attempt of executeTransaction begins in the
\* synchronous step in which the previous one failed: the call itself makes
\* one attempt, and each later attempt is made by a timer after retryDelay.
C31_DelayBeforeEveryRetry ==
  lastOp.name = "executeTransaction" => call.invocations = 1

\* TransactionManager.isTransactionActive(id)
IsTransactionActive(id) == id \in activeTransactions

\* C32: the active set holds exactly the contexts that are PENDING, in every
\* state, and an id that has left the active set never enters it again.
C32_ActiveSetIsThePendingContexts ==
  [][/\ \A id \in 1..Len(contexts') :
          IsTransactionActive(id)' <=> contexts'[id].status = "PENDING"
     /\ \A id \in 1..Len(contexts) :
          ~IsTransactionActive(id) => ~IsTransactionActive(id)']_vars

\* one context committed, one rolled back and one still active
C32_Witness ==
  /\ \E id \in 1..Len(contexts) : Status(id) = "COMMITTED"
  /\ \E id \in 1..Len(contexts) : Status(id) = "ROLLED_BACK"
  /\ \E id \in 1..Len(contexts) : IsTransactionActive(id)

\* the place of the first callback of observer o in a trace
FirstCallback(tr, o) ==
  CHOOSE i \in 1..Len(tr) :
    tr[i].observer = o /\ \A j \in 1..(i - 1) : tr[j].observer # o

Called(tr, o) == \E i \in 1..Len(tr) : tr[i].observer = o

LogsOf(id) ==
  {k \in 1..Len(transactionLogs) : transactionLogs[k].transactionId = id}

\* C34: the attempts of an executeTransaction call on the store run under
\* ids that differ from one another; the logs hold one log with one 'update'
\* operation under the id of each attempt whose body returned, and no log
\* under the id of an attempt whose body threw.
C34_OneUpdateLoggedPerSuccessfulAttempt ==
  AfterExecute =>
    /\ \A i, j \in 1..Len(call.ids) : i # j => call.ids[i] # call.ids[j]
    /\ \A i \in 1..Len(call.ids) :
         IF BodyThrows(call.body, i)
         THEN LogsOf(call.ids[i]) = {}
         ELSE /\ Cardinality(LogsOf(call.ids[i])) = 1
              /\ \A k \in LogsOf(call.ids[i]) :
                   /\ Len(transactionLogs[k].operations) = 1
                   /\ transactionLogs[k].operations[1].type = "update"

\* a call that succeeded at its third attempt, after a call that succeeded at
\* once
C34_Witness ==
  /\ lastOp.name = "retryTimer"
  /\ Len(call.ids) = 3
  /\ call.outcome = "resolved"
  /\ LogsOf(call.ids[3]) # {}
  /\ LogsOf(call.ids[1]) = {}

\* the operations that `logs` holds for transaction id
OperationsOf(logs, id) ==
  LET filed == {k \in 1..Len(logs) : logs[k].transactionId = id}
  IN IF filed = {} THEN <<>> ELSE logs[CHOOSE k \in filed : TRUE].operations

\* C35: the logs hold at most one log per transaction id; logOperation(id, op)
\* appends op to the operations of id and leaves those of every other id as
\* they were; clearTransactionLogs() leaves no log; a commit or a rollback
\* leaves the logs as they were.
C35_LogsAreAppendOnlyPerId ==
  [][/\ \A j, k \in 1..Len(transactionLogs') :
          transactionLogs'[j].transactionId =
            transactionLogs'[k].transactionId => j = k
     /\ lastOp'.name = "logOperation" =>
          /\ OperationsOf(transactionLogs', lastOp'.id) =
               Append(OperationsOf(transactionLogs, lastOp'.id),
                      lastOp'.operation)
          /\ \A id \in LoggedIds \ {lastOp'.id} :
               OperationsOf(transactionLogs', id) =
                 OperationsOf(transactionLogs, id)
     /\ lastOp'.name = "clearTransactionLogs" => transactionLogs' = <<>>
     /\ lastOp'.name \in {"commitTransaction", "rollbackTransaction"} =>
          transactionLogs' = transactionLogs]_vars

\* two ids logged in turn, the first one twice, and a transaction ended
C35_Witness ==
  /\ lastOp.name \in {"commitTransaction", "rollbackTransaction"}
  /\ lastOp.err = "ok"
  /\ Len(transactionLogs) = 2
  /\ Len(transactionLogs[1].operations) = 2
  /\ transactionLogs[1].operations[1].type #
       transactionLogs[1].operations[2].type

\* C36: whenever the current transaction is committed or rolled back, the
\* transaction that was current when it was begun becomes current again,
\* still PENDING and with the id it was given; when it was begun with no
\* current transaction, there is no current transaction afterwards.
C36_OuterTransactionIsRestored ==
  [][(/\ currentTransaction # Undefined
      /\ transactions'[currentTransaction].status # "PENDING") =>
       LET outer == transactions[currentTransaction].outer
       IN /\ currentTransaction' = outer
          /\ outer # Undefined =>
               /\ transactions'[outer].status = "PENDING"
               /\ transactions'[outer].id = outer]_vars

\* the inner of two nested transactions was ended and the outer one is
\* current again
C36_Witness ==
  /\ Len(transactions) = 2
  /\ transactions[2].outer = 1
  /\ transactions[2].status = "ROLLED_BACK"
  /\ lastOp.name = "rollback"
  /\ currentTransaction = 1
  /\ transactions[1].status = "PENDING"

\* C37: when a call of executeWithinTransaction resumes after its action and
\* commits or rolls back, the status of the transaction begun by any other
\* call stays as it was (call c began transaction c).
C37_CallEndsItsOwnTransaction ==
  [][lastOp'.name = "actionSettled" =>
       \A d \in 1..Len(calls) \ {lastOp'.id} :
         transactions'[d].status = transactions[d].status]_vars

\* C38 (as claimed): when the only two transactions of the store are PENDING
\* together and are rolled back by two rollbackTransaction calls in a row,
\* in either order, getState() after the second rollback is the value the
\* store held when the first of the two began.
C38_OverlappingRollbacksRestoreTheEarliestValue ==
  [][\A A, B \in 1..Len(contexts) :
       (/\ Len(contexts) = 2
        /\ A # B
        /\ lastOp.name = "rollbackTransaction"
        /\ lastOp.id = A
        /\ lastOp.err = "ok"
        /\ Status(B) = "PENDING"
        /\ lastOp'.name = "rollbackTransaction"
        /\ lastOp'.id = B
        /\ lastOp'.err = "ok") =>
         StoreGetState(World)' = contexts[1].beganAt]_vars

\* C39: with fair timers, every transaction begun with a positive timeout
\* is eventually no longer PENDING and no longer in the active set, whether
\* or not the caller commits it or rolls it back.
C39_WatchdogEndsEveryTransaction ==
  \A id \in TransactionIds :
    (id <= Len(contexts) /\ contexts[id].timeout > 0) ~>
      (/\ id <= Len(contexts)
       /\ Status(id) # "PENDING"
       /\ ~IsTransactionActive(id))

\* the watchdog found its transaction PENDING and rolled it back
C39_Witness ==
  /\ lastOp.name = "watchdog"
  /\ lastOp.err = "TransactionTimeout"
  /\ contexts[lastOp.id].timeout > 0
  /\ Status(lastOp.id) = "ROLLED_BACK"
  /\ ~IsTransactionActive(lastOp.id)

====
